---- MODULE Spec2Model ----
(***************************************************************************)
(* State-machine model of the process flow editor of src/src/App.js: the   *)
(* React state of ProcessFlowEditor (flows, currentFlow, selectedSteps),   *)
(* its event handlers, the FileReader callback of importFlow and the       *)
(* impact summary computed on every render.                                *)
(*                                                                         *)
(* Conventions.  JavaScript array index k is TLA+ sequence index k+1; the  *)
(* stepIndex field keeps the 0-based JavaScript value.  null is the record *)
(* `null`.  Date.now() is the integer `now` (milliseconds); the string     *)
(* new Date().toISOString() is represented by the millisecond value it     *)
(* renders, the rendering being injective and order preserving.  A handler *)
(* that reads the clock several times may see it advance between reads.    *)
(* Every handler runs against the state of the latest render; only the     *)
(* reader.onload closure keeps the `flows` of the render in which the      *)
(* import was started.                                                     *)
(*                                                                         *)
(* Besides the React state: `files` are the documents exportFlow has       *)
(* downloaded, `pending` the file reads in flight (each with the flows its *)
(* callback closed over), `lastOp` the handler that ran last and its       *)
(* outcome, `ops` the number of handler invocations so far.                *)
(***************************************************************************)
EXTENDS Integers, Sequences, FiniteSets, TLC

VARIABLES flows, currentFlow, selectedSteps, impact, now, files, pending, lastOp, ops

vars == <<flows, currentFlow, selectedSteps, impact, now, files, pending, lastOp, ops>>

(***************************************************************************)
(* Bounds of the model.                                                    *)
(***************************************************************************)
MaxFlows == 2
MaxSteps == 3
MaxClock == 1
MaxFiles == 1
MaxPending == 1
MaxCopyDepth == 1
MaxOps == 4
MaxImpactLen == 6
MaxPermLen == 4

(***************************************************************************)
(* The step catalog, flattened in source order.                            *)
(***************************************************************************)
PROCESS_STEPS_LIBRARY ==
  << [id |-> "cvd_oxide", name |-> "CVD Oxide", duration |-> 120, power |-> 2500,
      chemicals |-> <<"TEOS", "O2">>, temperature |-> 400, envImpact |-> "medium"],
     [id |-> "pvd_metal", name |-> "PVD Metal", duration |-> 90, power |-> 3000,
      chemicals |-> <<"Ar", "Ti">>, temperature |-> 25, envImpact |-> "low"],
     [id |-> "ald_hfO2", name |-> "ALD HfO2", duration |-> 180, power |-> 1500,
      chemicals |-> <<"TDMAH", "H2O">>, temperature |-> 300, envImpact |-> "high"],
     [id |-> "dry_etch_oxide", name |-> "Dry Etch Oxide", duration |-> 60, power |-> 2000,
      chemicals |-> <<"CF4", "CHF3">>, temperature |-> 25, envImpact |-> "medium"],
     [id |-> "wet_etch_metal", name |-> "Wet Etch Metal", duration |-> 30, power |-> 0,
      chemicals |-> <<"H2SO4", "H2O2">>, temperature |-> 80, envImpact |-> "high"],
     [id |-> "photoresist_coat", name |-> "Photoresist Coating", duration |-> 45, power |-> 500,
      chemicals |-> <<"Photoresist", "PGMEA">>, temperature |-> 25, envImpact |-> "low"],
     [id |-> "euv_exposure", name |-> "EUV Exposure", duration |-> 180, power |-> 5000,
      chemicals |-> <<>>, temperature |-> 25, envImpact |-> "very_high"],
     [id |-> "rca_clean", name |-> "RCA Clean", duration |-> 20, power |-> 100,
      chemicals |-> <<"NH4OH", "H2O2", "HCl">>, temperature |-> 70, envImpact |-> "medium"],
     [id |-> "megasonic_clean", name |-> "Megasonic Clean", duration |-> 15, power |-> 800,
      chemicals |-> <<"DI Water">>, temperature |-> 25, envImpact |-> "low"] >>

\* Catalog entries the editor model clicks on, and those the summary model uses.
EditorTemplates == {1}
ImpactTemplates == {5, 7, 8, 9}

null == [null |-> TRUE]

\* flow.steps || []
StepsOrEmpty(flow) == IF "steps" \in DOMAIN flow THEN flow.steps ELSE <<>>

\* The clock values a handler that started at t0 can read after having read t:
\* a handler runs for less than a millisecond, so it sees at most one advance.
Later(t0, t) == {u \in t..(t0 + 1) : u <= MaxClock}

(***************************************************************************)
(* calculateEnvironmentalImpact                                            *)
(***************************************************************************)
\* selectedSteps.reduce((sum, step) => sum + (step.power * step.duration / 60), 0),
\* kept exact as sixtieths: the result is 60 times the JavaScript sum.
RECURSIVE EnergySixtieths(_)
EnergySixtieths(steps) ==
  IF steps = <<>> THEN 0
  ELSE EnergySixtieths(SubSeq(steps, 1, Len(steps) - 1))
         + steps[Len(steps)].power * steps[Len(steps)].duration

\* (n60 / 60).toFixed(1): the decimal string with one digit after the point,
\* rounded half up.
toFixed1(n60) ==
  LET tenths == (n60 + 3) \div 6
  IN  ToString(tenths \div 10) \o "." \o ToString(tenths % 10)

\* The reduce started at the second element.
RECURSIVE TotalTimeOffByOne(_)
TotalTimeOffByOne(steps) ==
  IF Len(steps) <= 1 THEN 0
  ELSE TotalTimeOffByOne(SubSeq(steps, 1, Len(steps) - 1)) + steps[Len(steps)].duration

\* selectedSteps.reduce((sum, step) => sum + step.duration, 0)
RECURSIVE TotalTime(_)
TotalTime(steps) ==
  IF steps = <<>> THEN 0
  ELSE TotalTime(SubSeq(steps, 1, Len(steps) - 1)) + steps[Len(steps)].duration

\* selectedSteps.flatMap(step => step.chemicals)
RECURSIVE FlatMapChemicals(_)
FlatMapChemicals(steps) ==
  IF steps = <<>> THEN <<>>
  ELSE steps[1].chemicals \o FlatMapChemicals(Tail(steps))

\* [...new Set(list)]: insertion order of a Set, each value once, at the place
\* of its first insertion.
RECURSIVE SpreadSet(_)
SpreadSet(list) ==
  IF list = <<>> THEN <<>>
  ELSE LET init == SpreadSet(SubSeq(list, 1, Len(list) - 1))
           x == list[Len(list)]
       IN  IF \E k \in DOMAIN init : init[k] = x THEN init ELSE Append(init, x)

\* The list without the Set.
ChemicalsNoSet(steps) == FlatMapChemicals(steps)

Chemicals(steps) == SpreadSet(FlatMapChemicals(steps))

IsHighImpact(step) == step.envImpact \in {"high", "very_high"}

\* The first threshold taken as "at least 2".
RiskLevelAtLeast(steps) ==
  LET highImpactSteps == Len(SelectSeq(steps, IsHighImpact))
  IN  IF highImpactSteps >= 2 THEN "very_high"
      ELSE IF highImpactSteps > 0 THEN "high"
      ELSE IF Len(steps) > 5 THEN "medium" ELSE "low"

RiskLevel(steps) ==
  LET highImpactSteps == Len(SelectSeq(steps, IsHighImpact))
  IN  IF highImpactSteps > 2 THEN "very_high"
      ELSE IF highImpactSteps > 0 THEN "high"
      ELSE IF Len(steps) > 5 THEN "medium" ELSE "low"

calculateEnvironmentalImpact(steps) ==
  IF Len(steps) = 0
  THEN [totalEnergy |-> 0, totalTime |-> 0, chemicals |-> <<>>, riskLevel |-> "low"]
  ELSE [totalEnergy |-> toFixed1(EnergySixtieths(steps)),
        totalTime   |-> TotalTime(steps),
        chemicals   |-> Chemicals(steps),
        riskLevel   |-> RiskLevel(steps)]

(***************************************************************************)
(* JSON.stringify and JSON.parse on flow objects.  A document is the       *)
(* sequence of its <<key, value>> members; an object is a record.  The     *)
(* members are written in the order in which createNewFlow creates them.   *)
(***************************************************************************)
FlowKeys == <<"id", "name", "description", "steps", "createdAt", "modifiedAt">>
StepKeys == <<"id", "name", "duration", "power", "chemicals", "temperature",
              "envImpact", "stepIndex">>

StringifyStep(step) ==
  LET present == SelectSeq(StepKeys, LAMBDA k : k \in DOMAIN step)
  IN  [i \in 1..Len(present) |-> <<present[i], step[present[i]]>>]

JSONstringify(flow) ==
  LET present == SelectSeq(FlowKeys, LAMBDA k : k \in DOMAIN flow)
  IN  [i \in 1..Len(present) |->
         <<present[i],
           IF present[i] = "steps"
           THEN [j \in 1..Len(flow.steps) |-> StringifyStep(flow.steps[j])]
           ELSE flow[present[i]]>>]

\* The value of the last member with key k (a repeated key overwrites).
MemberValue(members, k) ==
  LET last == CHOOSE i \in DOMAIN members :
                /\ members[i][1] = k
                /\ \A j \in DOMAIN members : members[j][1] = k => j <= i
  IN  members[last][2]

ParseObject(members) ==
  [k \in {members[i][1] : i \in DOMAIN members} |-> MemberValue(members, k)]

JSONparse(text) ==
  [k \in {text[i][1] : i \in DOMAIN text} |->
     IF k = "steps"
     THEN [j \in 1..Len(MemberValue(text, k)) |-> ParseObject(MemberValue(text, k)[j])]
     ELSE MemberValue(text, k)]

\* Files the user can pick besides the exported ones: one that is not JSON and
\* a flow document written without a steps member.
InvalidFile == [syntaxOK |-> FALSE, text |-> <<>>, exportedFrom |-> null]
NoStepsFile ==
  [syntaxOK |-> TRUE,
   text |-> << <<"id", 0>>, <<"name", "Legacy Flow">>, <<"description", "">>,
               <<"createdAt", 0>>, <<"modifiedAt", 0>> >>,
   exportedFrom |-> null]
UserFiles == <<InvalidFile, NoStepsFile>> \o files

(***************************************************************************)
(* The state after construction (useState initial values).                 *)
(***************************************************************************)
Init ==
  /\ flows = <<>>
  /\ currentFlow = null
  /\ selectedSteps = <<>>
  /\ impact = calculateEnvironmentalImpact(<<>>)
  /\ now = 0
  /\ files = <<>>
  /\ pending = <<>>
  /\ lastOp = "init"
  /\ ops = 0

\* const impact = calculateEnvironmentalImpact() of the render that follows
\* every state update.
Render == impact' = calculateEnvironmentalImpact(selectedSteps')

\* Time passes between two handlers.
Tick ==
  /\ now < MaxClock
  /\ now' = now + 1
  /\ lastOp' = "tick"
  /\ UNCHANGED <<flows, currentFlow, selectedSteps, impact, files, pending, ops>>

newFlow(t1, t2, t3) ==
  [id |-> t1,
   name |-> "Process Flow " \o ToString(Len(flows) + 1),
   description |-> "",
   steps |-> <<>>,
   createdAt |-> t2,
   modifiedAt |-> t3]

createNewFlow ==
  \E t2 \in Later(now, now) : \E t3 \in Later(now, t2) :
    /\ flows' = Append(flows, newFlow(now, t2, t3))
    /\ currentFlow' = newFlow(now, t2, t3)
    /\ selectedSteps' = <<>>
    /\ now' = t3
    /\ lastOp' = "createNewFlow"
    /\ Render
    /\ UNCHANGED <<files, pending>>

\* { ...step, id: `${step.id}_${Date.now()}`, stepIndex: selectedSteps.length }
newStep(step, t) ==
  [id |-> step.id \o "_" \o ToString(t),
   name |-> step.name,
   duration |-> step.duration,
   power |-> step.power,
   chemicals |-> step.chemicals,
   temperature |-> step.temperature,
   envImpact |-> step.envImpact,
   stepIndex |-> Len(selectedSteps)]

\* The updated flow given a fresh id.
WithStepsNewId(flow, updatedSteps, t) ==
  [k \in DOMAIN flow \cup {"steps", "modifiedAt"} |->
     IF k = "steps" THEN updatedSteps
     ELSE IF k = "modifiedAt" THEN t
     ELSE IF k = "id" THEN flow.id + 1
     ELSE flow[k]]

\* { ...currentFlow, steps: updatedSteps, modifiedAt: new Date().toISOString() }
WithSteps(flow, updatedSteps, t) ==
  [k \in DOMAIN flow \cup {"steps", "modifiedAt"} |->
     IF k = "steps" THEN updatedSteps
     ELSE IF k = "modifiedAt" THEN t
     ELSE flow[k]]

\* The stored list left as it was.
MapFlowsNotWritten(fs, id, updatedFlow) == fs

\* flows.map(f => f.id === currentFlow.id ? updatedFlow : f)
MapFlows(fs, id, updatedFlow) ==
  [i \in 1..Len(fs) |-> IF fs[i].id = id THEN updatedFlow ELSE fs[i]]

addStepToFlow(step, opName) ==
  IF currentFlow = null
  THEN /\ lastOp' = "noFlow"
       /\ UNCHANGED <<flows, currentFlow, selectedSteps, impact, now, files, pending>>
  ELSE \E t2 \in Later(now, now) :
         LET updatedSteps == Append(selectedSteps, newStep(step, now))
             updatedFlow == WithSteps(currentFlow, updatedSteps, t2)
         IN  /\ selectedSteps' = updatedSteps
             /\ currentFlow' = updatedFlow
             /\ flows' = MapFlows(flows, currentFlow.id, updatedFlow)
             /\ now' = t2
             /\ lastOp' = opName
             /\ Render
             /\ UNCHANGED <<files, pending>>

\* selectedSteps.filter((_, index) => index !== stepIndex)
FilterOut(steps, stepIndex) ==
  LET kept == {i \in 1..Len(steps) : i - 1 # stepIndex}
      RECURSIVE Build(_)
      Build(i) == IF i > Len(steps) THEN <<>>
                  ELSE IF i \in kept THEN <<steps[i]>> \o Build(i + 1)
                  ELSE Build(i + 1)
  IN  Build(1)

removeStep(stepIndex) ==
  LET updatedSteps == FilterOut(selectedSteps, stepIndex)
  IN  /\ selectedSteps' = updatedSteps
      /\ lastOp' = IF stepIndex \in 0..(Len(selectedSteps) - 1)
                   THEN "removeStep" ELSE "removeStepOutOfRange"
      /\ Render
      /\ IF currentFlow # null
         THEN \E t \in Later(now, now) :
                LET updatedFlow == WithSteps(currentFlow, updatedSteps, t)
                IN  /\ currentFlow' = updatedFlow
                    /\ flows' = MapFlows(flows, currentFlow.id, updatedFlow)
                    /\ now' = t
         ELSE UNCHANGED <<flows, currentFlow, now>>
      /\ UNCHANGED <<files, pending>>

\* flowName is the answer of prompt(); the empty string stands for both the
\* empty answer and the cancelled dialog (null), which the code treats alike.
saveFlow(flowName) ==
  IF currentFlow = null \/ flowName = ""
  THEN /\ lastOp' = "saveFlowCancelled"
       /\ UNCHANGED <<flows, currentFlow, selectedSteps, impact, now, files, pending>>
  ELSE LET updatedFlow == [currentFlow EXCEPT !.name = flowName, !.modifiedAt = now]
       IN  /\ currentFlow' = updatedFlow
           /\ flows' = MapFlows(flows, currentFlow.id, updatedFlow)
           /\ lastOp' = "saveFlow"
           /\ UNCHANGED <<selectedSteps, impact, now, files, pending>>

\* The downloaded file; exportedFrom remembers the flow it was written from.
exportFlow ==
  /\ currentFlow # null
  /\ files' = Append(files, [syntaxOK |-> TRUE,
                             text |-> JSONstringify(currentFlow),
                             exportedFrom |-> currentFlow])
  /\ lastOp' = "exportFlow"
  /\ UNCHANGED <<flows, currentFlow, selectedSteps, impact, now, pending>>

\* importFlow up to reader.readAsText(file): the callback closes over the
\* flows of this render.
importFlow(file) ==
  /\ pending' = Append(pending, [flows |-> flows, file |-> file])
  /\ lastOp' = "importFlow"
  /\ UNCHANGED <<flows, currentFlow, selectedSteps, impact, now, files>>

RemoveAt(s, i) == SubSeq(s, 1, i - 1) \o SubSeq(s, i + 1, Len(s))

\* importedFlow after the two assignments of the try block.
importedFlow(text, t1, t2) ==
  LET parsed == JSONparse(text)
  IN  [k \in DOMAIN parsed \cup {"id", "modifiedAt"} |->
         IF k = "id" THEN t1
         ELSE IF k = "modifiedAt" THEN t2
         ELSE parsed[k]]

\* The catch block also resetting the editor.
onloadCatchReset(i) ==
  /\ pending' = RemoveAt(pending, i)
  /\ currentFlow' = null
  /\ selectedSteps' = <<>>
  /\ lastOp' = "importError"
  /\ Render
  /\ UNCHANGED <<flows, now, files>>

\* JSON.parse throws: alert('Error importing flow: Invalid JSON file')
onloadCatch(i) ==
  /\ pending' = RemoveAt(pending, i)
  /\ lastOp' = "importError"
  /\ UNCHANGED <<flows, currentFlow, selectedSteps, impact, now, files>>

onloadTry(i) ==
  \E t2 \in Later(now, now) :
    LET imported == importedFlow(pending[i].file.text, now, t2)
    IN  /\ flows' = Append(pending[i].flows, imported)
        /\ currentFlow' = imported
        /\ selectedSteps' = StepsOrEmpty(imported)
        /\ now' = t2
        /\ pending' = RemoveAt(pending, i)
        /\ lastOp' = IF pending[i].flows = flows THEN "imported" ELSE "importedOverStale"
        /\ Render
        /\ UNCHANGED files

\* reader.onload of the i-th read in flight
readerOnload(i) ==
  IF pending[i].file.syntaxOK THEN onloadTry(i) ELSE onloadCatch(i)

\* The click that activates the flow and leaves the step list as it was.
selectFlowKeepSteps(i) ==
  /\ currentFlow' = flows[i]
  /\ lastOp' = "selectFlow"
  /\ UNCHANGED <<flows, selectedSteps, impact, now, files, pending>>

\* onClick of a saved flow
selectFlow(i) ==
  /\ currentFlow' = flows[i]
  /\ selectedSteps' = StepsOrEmpty(flows[i])
  /\ lastOp' = "selectFlow"
  /\ Render
  /\ UNCHANGED <<flows, now, files, pending>>

(***************************************************************************)
(* The editor: every interaction the page offers, within the bounds.       *)
(***************************************************************************)
\* One more handler invocation, within the bound on their number.
Handled == ops < MaxOps /\ ops' = ops + 1

NewFlowClick == Len(flows) < MaxFlows /\ createNewFlow /\ Handled

LibraryClick ==
  \E n \in EditorTemplates :
    /\ Len(selectedSteps) < MaxSteps
    /\ addStepToFlow(PROCESS_STEPS_LIBRARY[n], "addStepToFlow")
    /\ Handled

\* The instance ids that are d timestamps away from a catalog id: the ids of
\* steps added from the library (d = 1) and of copies of copies (d > 1).
RECURSIVE IdsOfDepth(_)
IdsOfDepth(d) ==
  IF d = 0 THEN {PROCESS_STEPS_LIBRARY[n].id : n \in DOMAIN PROCESS_STEPS_LIBRARY}
  ELSE {id \o "_" \o ToString(t) : id \in IdsOfDepth(d - 1), t \in 0..MaxClock}

\* The steps the model copies: those at most MaxCopyDepth additions away from
\* the catalog.
CopyableIds == UNION {IdsOfDepth(d) : d \in 1..MaxCopyDepth}

DuplicateClick ==
  \E index \in 0..(Len(selectedSteps) - 1) :
    /\ Len(selectedSteps) < MaxSteps
    /\ selectedSteps[index + 1].id \in CopyableIds
    /\ addStepToFlow(selectedSteps[index + 1], "duplicate")
    /\ Handled

RemoveClick == \E index \in 0..Len(selectedSteps) : removeStep(index) /\ Handled

PromptAnswers == {"", "Etch Loop"}

SaveClick == \E flowName \in PromptAnswers : saveFlow(flowName) /\ Handled

ExportClick == Len(files) < MaxFiles /\ exportFlow /\ Handled

ImportChange ==
  \E n \in DOMAIN UserFiles :
    /\ Len(pending) < MaxPending
    /\ Len(flows) < MaxFlows
    /\ importFlow(UserFiles[n])
    /\ Handled

FileRead == \E i \in DOMAIN pending : readerOnload(i) /\ Handled

SavedFlowClick == \E i \in DOMAIN flows : selectFlow(i) /\ Handled

Next ==
  \/ Tick
  \/ NewFlowClick
  \/ LibraryClick
  \/ DuplicateClick
  \/ RemoveClick
  \/ SaveClick
  \/ ExportClick
  \/ ImportChange
  \/ FileRead
  \/ SavedFlowClick

Spec == Init /\ [][Next]_vars

(***************************************************************************)
(* The summary on its own: every step sequence of bounded length over the  *)
(* chosen catalog entries, as the editor holds it after that many          *)
(* additions, and the render that computes its summary.                    *)
(***************************************************************************)
InstanceAt(n, k) ==
  LET step == PROCESS_STEPS_LIBRARY[n]
  IN  [id |-> step.id \o "_0", name |-> step.name, duration |-> step.duration,
       power |-> step.power, chemicals |-> step.chemicals,
       temperature |-> step.temperature, envImpact |-> step.envImpact,
       stepIndex |-> k - 1]

ImpactInit ==
  \E len \in 0..MaxImpactLen : \E choice \in [1..len -> ImpactTemplates] :
    LET steps == [k \in 1..len |-> InstanceAt(choice[k], k)]
        flow == [id |-> 0, name |-> "Process Flow 1", description |-> "",
                 steps |-> steps, createdAt |-> 0, modifiedAt |-> 0]
    IN  /\ flows = <<flow>>
        /\ currentFlow = flow
        /\ selectedSteps = steps
        /\ impact = calculateEnvironmentalImpact(<<>>)
        /\ now = 0
        /\ files = <<>>
        /\ pending = <<>>
        /\ lastOp = "setSelectedSteps"
        /\ ops = 0

ImpactRender ==
  /\ lastOp = "setSelectedSteps"
  /\ impact' = calculateEnvironmentalImpact(selectedSteps)
  /\ lastOp' = "render"
  /\ UNCHANGED <<flows, currentFlow, selectedSteps, now, files, pending, ops>>

ImpactNext == ImpactRender

ImpactSpec == ImpactInit /\ [][ImpactNext]_vars

(***************************************************************************)
(* Properties.                                                             *)
(***************************************************************************)
\* Every step sequence the presentation layer can observe: the stored copies,
\* the active flow's and selectedSteps.
ObservedSequences ==
  <<selectedSteps>>
    \o (IF currentFlow = null THEN <<>> ELSE <<StepsOrEmpty(currentFlow)>>)
    \o [i \in 1..Len(flows) |-> StepsOrEmpty(flows[i])]

\* C1: every step of every flow (stored copy, active flow, selectedSteps) has
\* stepIndex equal to its index in its sequence, so the positions of a sequence
\* of length n are exactly 0..n-1, also after removeStep of an element that is
\* not the last one.
C1_PositionsContiguous ==
  \A s \in DOMAIN ObservedSequences :
    \A k \in DOMAIN ObservedSequences[s] : ObservedSequences[s][k].stepIndex = k - 1

\* C2: no two steps of the same flow have the same instance id, also when the
\* same template is added or the same step is duplicated repeatedly while
\* Date.now() has not advanced.
C2_InstanceIdsUnique ==
  \A s \in DOMAIN ObservedSequences :
    \A j, k \in DOMAIN ObservedSequences[s] :
      j # k => ObservedSequences[s][j].id # ObservedSequences[s][k].id

\* C3: whenever there is an active flow, the store contains a flow with the
\* active flow's id that equals the active flow in every field, also after an
\* import whose file read completes after other operations changed the store.
C3_ActiveFlowStored ==
  currentFlow # null =>
    \E i \in DOMAIN flows :
      /\ flows[i].id = currentFlow.id
      /\ DOMAIN flows[i] = DOMAIN currentFlow
      /\ \A k \in DOMAIN currentFlow : flows[i][k] = currentFlow[k]

\* An import has completed over a store that had changed since the import
\* started, and the imported flow is active and stored.
C3_Witness ==
  /\ lastOp = "importedOverStale"
  /\ currentFlow # null
  /\ \E i \in DOMAIN flows : flows[i] = currentFlow

\* C4: all flows in the store have pairwise distinct ids, also when two flows
\* are created or imported while Date.now() returns the same value.
C4_FlowIdsDistinct ==
  \A i, j \in DOMAIN flows : i # j => flows[i].id # flows[j].id

\* C5: importing the document exportFlow wrote from a flow f yields a flow equal
\* to f in name, description, steps and createdAt, with an id different from
\* f's and a modifiedAt not before f's.
C5_RoundTrip ==
  [][\A i \in DOMAIN pending :
       (pending[i].file.exportedFrom # null /\ readerOnload(i)) =>
          LET f == pending[i].file.exportedFrom
              g == currentFlow'
          IN  /\ g.name = f.name
              /\ g.description = f.description
              /\ ("steps" \in DOMAIN g) = ("steps" \in DOMAIN f)
              /\ StepsOrEmpty(g) = StepsOrEmpty(f)
              /\ g.createdAt = f.createdAt
              /\ g.modifiedAt >= f.modifiedAt
              /\ g.id # f.id]_vars

\* C6: the import of a syntactically invalid document ends in the error
\* outcome and leaves the stored flows, the active flow and the active step
\* sequence exactly as they were.
C6_InvalidImportChangesNothing ==
  [][\A i \in DOMAIN pending :
       (~pending[i].file.syntaxOK /\ readerOnload(i)) =>
          /\ lastOp' = "importError"
          /\ flows' = flows
          /\ currentFlow' = currentFlow
          /\ selectedSteps' = selectedSteps]_vars

\* The error outcome of an import reached with a flow being edited.
C6_Witness ==
  /\ lastOp = "importError"
  /\ currentFlow # null
  /\ Len(selectedSteps) > 0
  /\ Len(flows) > 0

HighCount ==
  Cardinality({k \in DOMAIN selectedSteps :
                 selectedSteps[k].envImpact = "high"
                   \/ selectedSteps[k].envImpact = "very_high"})

\* C7: riskLevel is very_high when more than 2 steps have envImpact high or
\* very_high; otherwise high when at least one has; otherwise medium when the
\* sequence has more than 5 steps; otherwise low.
C7_RiskLevel ==
  lastOp = "render" =>
    /\ HighCount > 2 => impact.riskLevel = "very_high"
    /\ HighCount \in {1, 2} => impact.riskLevel = "high"
    /\ (HighCount = 0 /\ Len(selectedSteps) > 5) => impact.riskLevel = "medium"
    /\ (HighCount = 0 /\ Len(selectedSteps) <= 5) => impact.riskLevel = "low"

\* Six steps, none of high impact, summarised as medium.
C7_Witness ==
  /\ lastOp = "render"
  /\ Len(selectedSteps) = 6
  /\ HighCount = 0
  /\ impact.riskLevel = "medium"

\* The durations that occur, each counted as often as it occurs.
RECURSIVE WeightedSum(_, _)
WeightedSum(values, steps) ==
  IF values = {} THEN 0
  ELSE LET d == CHOOSE v \in values : TRUE
       IN  d * Cardinality({k \in DOMAIN steps : steps[k].duration = d})
             + WeightedSum(values \ {d}, steps)

Swapped(steps, i, j) ==
  [k \in DOMAIN steps |-> IF k = i THEN steps[j] ELSE IF k = j THEN steps[i] ELSE steps[k]]

\* C8: totalTime is the sum of the durations of all steps and is the same for
\* every permutation of the sequence (every exchange of two steps, and every
\* permutation outright up to MaxPermLen steps); the summary of the empty
\* sequence is energy 0, time 0, no chemicals, riskLevel low.
C8_TotalTime ==
  lastOp = "render" =>
    /\ impact.totalTime
         = WeightedSum({selectedSteps[k].duration : k \in DOMAIN selectedSteps}, selectedSteps)
    /\ \A i, j \in DOMAIN selectedSteps :
         i < j => calculateEnvironmentalImpact(Swapped(selectedSteps, i, j)).totalTime
                    = impact.totalTime
    /\ Len(selectedSteps) <= MaxPermLen =>
         \A p \in Permutations(DOMAIN selectedSteps) :
           calculateEnvironmentalImpact([k \in DOMAIN selectedSteps |-> selectedSteps[p[k]]]).totalTime
             = impact.totalTime
    /\ selectedSteps = <<>> =>
         /\ impact.totalEnergy = 0
         /\ impact.totalTime = 0
         /\ impact.chemicals = <<>>
         /\ impact.riskLevel = "low"

\* Three steps of three different durations, summed.
C8_Witness ==
  /\ lastOp = "render"
  /\ Len(selectedSteps) = 3
  /\ selectedSteps[1].duration = 180
  /\ selectedSteps[2].duration = 30
  /\ selectedSteps[3].duration = 20
  /\ impact.totalTime = 230
  /\ calculateEnvironmentalImpact(<<selectedSteps[3], selectedSteps[1], selectedSteps[2]>>).totalTime = 230

\* All chemicals in reading order: steps in sequence order, each step's
\* chemicals in their listed order.
ReadingOrder == FlatMapChemicals(selectedSteps)

FirstOccurrence(c) ==
  CHOOSE k \in DOMAIN ReadingOrder :
    ReadingOrder[k] = c /\ \A m \in 1..(k - 1) : ReadingOrder[m] # c

\* C9: the summary's chemicals are exactly the chemicals that occur in at least
\* one step, each once, ordered by first occurrence in reading order.
C9_Chemicals ==
  lastOp = "render" =>
    /\ {impact.chemicals[k] : k \in DOMAIN impact.chemicals}
         = UNION {{selectedSteps[s].chemicals[c] : c \in DOMAIN selectedSteps[s].chemicals} :
                    s \in DOMAIN selectedSteps}
    /\ \A j, k \in DOMAIN impact.chemicals :
         j < k => /\ impact.chemicals[j] # impact.chemicals[k]
                  /\ FirstOccurrence(impact.chemicals[j]) < FirstOccurrence(impact.chemicals[k])

\* H2O2 used by two steps and listed once, after H2SO4 and before HCl.
C9_Witness ==
  /\ lastOp = "render"
  /\ Len(selectedSteps) = 2
  /\ selectedSteps[1].name = "Wet Etch Metal"
  /\ selectedSteps[2].name = "RCA Clean"
  /\ impact.chemicals = <<"H2SO4", "H2O2", "NH4OH", "HCl">>

\* C10: duplicating the step at index i of a sequence of length n gives a
\* sequence of length n+1 whose first n elements are the original ones and
\* whose last element has the source's name, duration, power, chemicals,
\* temperature and envImpact, position n, and an instance id different from
\* that of every other step of the sequence.
C10_DuplicateAppendsDistinctCopy ==
  [][\A index \in 0..(Len(selectedSteps) - 1) :
       addStepToFlow(selectedSteps[index + 1], "duplicate") =>
          LET n == Len(selectedSteps)
              source == selectedSteps[index + 1]
              copy == selectedSteps'[n + 1]
          IN  /\ Len(selectedSteps') = n + 1
              /\ SubSeq(selectedSteps', 1, n) = selectedSteps
              /\ copy.name = source.name
              /\ copy.duration = source.duration
              /\ copy.power = source.power
              /\ copy.chemicals = source.chemicals
              /\ copy.temperature = source.temperature
              /\ copy.envImpact = source.envImpact
              /\ copy.stepIndex = n
              /\ \A k \in 1..n : selectedSteps'[k].id # copy.id]_vars

\* The handlers that change the active flow's steps or name.
MutationOps == {"addStepToFlow", "duplicate", "removeStep", "saveFlow"}

\* C11: removeStep with an index outside 0..n-1 of the active sequence (any
\* index on an empty sequence included) changes nothing: the active step
\* sequence, the active flow with its modifiedAt and the stored flows stay as
\* they were.
C11_RemoveOutOfRangeChangesNothing ==
  [][\A index \in (-1)..(Len(selectedSteps) + 1) :
       (index \notin 0..(Len(selectedSteps) - 1) /\ removeStep(index)) =>
          /\ selectedSteps' = selectedSteps
          /\ currentFlow' = currentFlow
          /\ flows' = flows]_vars

HasNoStepsMember(text) == \A m \in DOMAIN text : text[m][1] # "steps"

\* C12: importing a syntactically valid document without a steps member
\* succeeds and the imported flow's steps are the empty sequence in the stored
\* copy, in the active flow and in selectedSteps alike.
C12_MissingStepsImportedAsEmpty ==
  [][\A i \in DOMAIN pending :
       (/\ pending[i].file.syntaxOK
        /\ HasNoStepsMember(pending[i].file.text)
        /\ readerOnload(i)) =>
          /\ lastOp' \in {"imported", "importedOverStale"}
          /\ selectedSteps' = <<>>
          /\ "steps" \in DOMAIN currentFlow'
          /\ currentFlow'.steps = <<>>
          /\ "steps" \in DOMAIN flows'[Len(flows')]
          /\ flows'[Len(flows')].steps = <<>>]_vars

\* C13: addStepToFlow, removeStep with a valid index and saveFlow with a name
\* set modifiedAt of the active flow and of its stored copy to the clock value
\* of the operation; the modifiedAt of a stored flow never decreases and is
\* never less than its createdAt.
C13_ModifiedAtMonotonic ==
  [][/\ (lastOp' \in MutationOps /\ <<currentFlow, lastOp, ops>> # <<currentFlow', lastOp', ops'>>) =>
          /\ currentFlow'.modifiedAt = now'
          /\ \E i \in DOMAIN flows' :
               flows'[i].id = currentFlow'.id /\ flows'[i].modifiedAt = now'
     /\ \A i \in DOMAIN flows :
          (i \in DOMAIN flows' /\ flows'[i].id = flows[i].id) =>
             flows'[i].modifiedAt >= flows[i].modifiedAt
     /\ \A i \in DOMAIN flows' : flows'[i].modifiedAt >= flows'[i].createdAt]_vars

\* C14: createNewFlow appends one flow with an empty step sequence and
\* createdAt equal to modifiedAt at the end of the store, leaves the flows
\* stored before unchanged and in order, and makes the new flow the active one
\* with an empty active step sequence.
C14_CreateAppendsFreshFlow ==
  [][createNewFlow =>
       /\ Len(flows') = Len(flows) + 1
       /\ SubSeq(flows', 1, Len(flows)) = flows
       /\ flows'[Len(flows')].steps = <<>>
       /\ flows'[Len(flows')].createdAt = flows'[Len(flows')].modifiedAt
       /\ currentFlow' = flows'[Len(flows')]
       /\ selectedSteps' = <<>>]_vars

\* C15: addStepToFlow, removeStep and saveFlow leave the id, createdAt and
\* description of the active flow unchanged, in the active flow and in its
\* stored copy, and leave the id of every stored flow unchanged.
C15_IdentityFieldsStable ==
  [][(lastOp' \in MutationOps \cup {"removeStepOutOfRange"} /\ currentFlow # null) =>
       /\ currentFlow'.id = currentFlow.id
       /\ currentFlow'.createdAt = currentFlow.createdAt
       /\ currentFlow'.description = currentFlow.description
       /\ Len(flows') = Len(flows)
       /\ \A i \in DOMAIN flows :
            /\ flows'[i].id = flows[i].id
            /\ flows[i] = currentFlow =>
                 /\ flows'[i].createdAt = flows[i].createdAt
                 /\ flows'[i].description = flows[i].description]_vars

\* A flow with a step has been renamed.
C15_Witness ==
  /\ lastOp = "saveFlow"
  /\ currentFlow # null
  /\ currentFlow.name = "Etch Loop"
  /\ Len(selectedSteps) > 0
  /\ \E i \in DOMAIN flows : flows[i] = currentFlow

\* C16: no stored flow and no stored mutation is ever lost: after every step
\* each stored flow is still stored, unchanged or with the value a mutation of
\* that flow has just written back, also when the step is the completion of an
\* import started before flows were created or changed.
C16_NothingStoredIsLost ==
  [][\A i \in DOMAIN flows :
       /\ i \in DOMAIN flows'
       /\ \/ flows'[i] = flows[i]
          \/ /\ lastOp' \in MutationOps \cup {"removeStepOutOfRange"}
             /\ currentFlow # null
             /\ flows[i].id = currentFlow.id
             /\ flows'[i] = currentFlow']_vars

\* C17: addStepToFlow, removeStep and saveFlow change at most the one stored
\* flow that is the active flow; every other stored flow, and the number and
\* order of the stored flows, stay as they were.
C17_OnlyActiveFlowChanges ==
  [][(lastOp' \in MutationOps \cup {"removeStepOutOfRange"}) =>
       /\ Len(flows') = Len(flows)
       /\ Cardinality({i \in DOMAIN flows : flows'[i] # flows[i]}) <= 1
       /\ \A i \in DOMAIN flows : flows'[i] # flows[i] => flows[i] = currentFlow]_vars

\* C18: selectedSteps equals the active flow's steps, an absent steps field
\* read as the empty sequence, and is empty when no flow is active.
C18_SelectedStepsAreActiveSteps ==
  selectedSteps = (IF currentFlow = null THEN <<>> ELSE StepsOrEmpty(currentFlow))

\* A stored flow with steps has been selected while another flow was active.
C18_Witness ==
  /\ lastOp = "selectFlow"
  /\ Len(flows) = 2
  /\ Len(selectedSteps) > 0
  /\ selectedSteps = currentFlow.steps

====
